---------------------------- MODULE Spec2Model ----------------------------
(***************************************************************************)
(* OCR-MOSIP: the OCR engine (app/ocr_engine.py), the verification scorer  *)
(* (app/utils.py) and the HTTP handlers (app/main.py) as a state machine.  *)
(*                                                                         *)
(* Five specifications share the definitions below:                        *)
(*   SpecSeg   detect_and_merge_lines applied to bounded detector outputs; *)
(*   Spec      engine start-up, then one worker serving requests to the    *)
(*             four endpoints one after the other;                         *)
(*   SpecConc  a started engine and two workers running the handlers of    *)
(*             the document endpoints concurrently over the shared upload  *)
(*             folder and the shared debug_crops directory;                *)
(*   SpecClean  clean_text_output applied to bounded texts;                *)
(*   SpecVerify verify_form_data applied to bounded field mappings.        *)
(***************************************************************************)
EXTENDS Integers, Sequences, FiniteSets, TLC

VARIABLES
    results,      \* SpecSeg: what detector.readtext returned
    seg,          \* SpecSeg: locals of detect_and_merge_lines
    segpc,        \* SpecSeg: position inside detect_and_merge_lines
    engine,       \* "load_handwritten" .. "load_detector", "ready" | "fatal"
    models,       \* keys of engine.models / engine.processors
    fs,           \* UPLOAD_FOLDER, path -> stored content
    debug_crops,  \* the debug_crops directory
    req,          \* locals of each worker's request handler
    cleaner,      \* SpecClean: a call of clean_text_output
    verifier      \* SpecVerify: a call of verify_form_data

vars == <<results, seg, segpc, engine, models, fs, debug_crops, req,
          cleaner, verifier>>

segvars == <<results, seg, segpc>>
srvvars == <<engine, models, fs, debug_crops, req>>
purevars == <<cleaner, verifier>>

---------------------------------------------------------------------------
(* Bounds of the model                                                     *)

MaxBoxes == 3          \* detector outputs hold at most this many boxes
MaxTextLen == 2        \* recognised texts hold at most this many characters
MaxFields == 2         \* form_data holds at most this many fields

---------------------------------------------------------------------------
(* Program constants                                                       *)

MinBoxHeight   == 8    \* if height < 8: continue
SplitFloor     == 30   \* ... and h > 30
GroupNum       == 6    \* avg_h * 0.6, as the fraction GroupNum / GroupDen
GroupDen       == 10
BlurThreshold  == 85   \* is_blurry(image, threshold=85)
PadY           == 4    \* pad_y = 4
PadX           == 8    \* pad_x = 8

---------------------------------------------------------------------------
(* Arithmetic helpers                                                      *)

Abs(n) == IF n < 0 THEN -n ELSE n

Max2(a, b) == IF a > b THEN a ELSE b

Min2(a, b) == IF a < b THEN a ELSE b

RECURSIVE SumOver(_, _)
SumOver(s, k) ==
    IF s = <<>> THEN 0 ELSE s[1][k] + SumOver(Tail(s), k)

RECURSIVE MinOver(_, _)
MinOver(s, k) ==
    IF Len(s) = 1 THEN s[1][k] ELSE Min2(s[1][k], MinOver(Tail(s), k))

RECURSIVE MaxOver(_, _)
MaxOver(s, k) ==
    IF Len(s) = 1 THEN s[1][k] ELSE Max2(s[1][k], MaxOver(Tail(s), k))

(* list.sort(key=lambda b: b[k]): stable, ascending *)
RECURSIVE InsertByKey(_, _, _)
InsertByKey(sorted, b, k) ==
    IF sorted = <<>> THEN <<b>>
    ELSE IF b[k] < sorted[1][k] THEN <<b>> \o sorted
         ELSE <<sorted[1]>> \o InsertByKey(Tail(sorted), b, k)

RECURSIVE SortByKey(_, _)
SortByKey(s, k) ==
    IF s = <<>> THEN <<>>
    ELSE InsertByKey(SortByKey(SubSeq(s, 1, Len(s) - 1), k), s[Len(s)], k)

(* Python round(p / q) for p >= 0, q > 0: to nearest, ties to even *)
RoundHalfEven(p, q) ==
    LET f == p \div q
        r == p % q
    IN  IF 2 * r < q THEN f
        ELSE IF 2 * r > q THEN f + 1
        ELSE IF f % 2 = 0 THEN f ELSE f + 1

---------------------------------------------------------------------------
(* Boxes: [min_x, min_y, max_x, max_y, y_center, height]                   *)

MIN_X == 1
MIN_Y == 2
MAX_X == 3
MAX_Y == 4
Y_CENTER == 5
HEIGHT == 6

(* One entry of readtext: (bbox, text, prob), bbox = (tl, tr, br, bl),     *)
(* each corner (x, y); prob in percent.                                    *)
Quad(x1, y1, x2, y2, skew, prob) ==
    << << <<x1, y1>>, <<x2, y1 + skew>>, <<x2, y2 + skew>>, <<x1, y2>> >>,
       "", prob >>

(* The loop body of detect_and_merge_lines over one readtext entry *)
BoxOf(res) ==
    LET bbox == res[1]
        tl == bbox[1]
        tr == bbox[2]
        br == bbox[3]
        bl == bbox[4]
        min_x == Min2(tl[1], bl[1])
        max_x == Max2(tr[1], br[1])
        min_y == Min2(tl[2], tr[2])
        max_y == Max2(bl[2], br[2])
    IN  <<min_x, min_y, max_x, max_y, (min_y + max_y) \div 2, max_y - min_y>>

KeepsBox_Old15(res) == ~(BoxOf(res)[HEIGHT] < 15)

KeepsBox(res) == ~(BoxOf(res)[HEIGHT] < MinBoxHeight)

RECURSIVE FilterBoxes(_)
FilterBoxes(rs) ==
    IF rs = <<>> THEN <<>>
    ELSE IF KeepsBox(rs[1]) THEN <<BoxOf(rs[1])>> \o FilterBoxes(Tail(rs))
         ELSE FilterBoxes(Tail(rs))

(* 2 * np.median(heights): the median is a half-integer when the number   *)
(* of heights is even, so the model carries twice its value.              *)
Median2(boxes) ==
    LET s == SortByKey(boxes, HEIGHT)
        n == Len(s)
    IN  IF n % 2 = 1 THEN 2 * s[(n + 1) \div 2][HEIGHT]
        ELSE s[n \div 2][HEIGHT] + s[n \div 2 + 1][HEIGHT]

IsTall_Ratio18(box, med2) ==
    10 * box[HEIGHT] > 9 * med2 /\ box[HEIGHT] > SplitFloor

IsTall(box, med2) ==
    box[HEIGHT] > med2 /\ box[HEIGHT] > SplitFloor

NumSplits(h, med2) == Max2(2, RoundHalfEven(2 * h, med2))

(* every piece keeps the height of the box it was cut from *)
SplitBox_FullHeight(box, med2) ==
    LET h == box[HEIGHT]
        num_splits == NumSplits(h, med2)
        split_h == h \div num_splits
    IN  [i \in 1..num_splits |->
            LET new_y1 == box[MIN_Y] + ((i - 1) * split_h)
                new_y2 == box[MIN_Y] + (i * split_h)
            IN  <<box[MIN_X], new_y1, box[MAX_X], new_y2,
                  (new_y1 + new_y2) \div 2, h>>]

SplitBox(box, med2) ==
    LET h == box[HEIGHT]
        num_splits == NumSplits(h, med2)
        split_h == h \div num_splits
    IN  [i \in 1..num_splits |->
            LET new_y1 == box[MIN_Y] + ((i - 1) * split_h)
                new_y2 == box[MIN_Y] + (i * split_h)
            IN  <<box[MIN_X], new_y1, box[MAX_X], new_y2,
                  (new_y1 + new_y2) \div 2, split_h>>]

RECURSIVE SplitEach(_, _)
SplitEach(boxes, med2) ==
    IF boxes = <<>> THEN <<>>
    ELSE (IF IsTall(boxes[1], med2) THEN SplitBox(boxes[1], med2)
          ELSE <<boxes[1]>>) \o SplitEach(Tail(boxes), med2)

split_tall_boxes(boxes) ==
    IF boxes = <<>> THEN <<>> ELSE SplitEach(boxes, Median2(boxes))

SameLevel_Inclusive(box, current_line) ==
    LET n == Len(current_line)
    IN  GroupDen * Abs(box[Y_CENTER] * n - SumOver(current_line, Y_CENTER))
            <= GroupNum * SumOver(current_line, HEIGHT)

(* abs(box[4] - avg_center) < avg_h * 0.6, both sides times len * 10 *)
SameLevel(box, current_line) ==
    LET n == Len(current_line)
    IN  GroupDen * Abs(box[Y_CENTER] * n - SumOver(current_line, Y_CENTER))
            < GroupNum * SumOver(current_line, HEIGHT)

(* The grouping loop: st = [merged_lines, current_line] *)
GroupStep(st, box) ==
    IF st.current_line = <<>>
    THEN [st EXCEPT !.current_line = <<box>>]
    ELSE IF SameLevel(box, st.current_line)
         THEN [st EXCEPT !.current_line = Append(@, box)]
         ELSE [merged_lines |-> Append(st.merged_lines, st.current_line),
               current_line |-> <<box>>]

RECURSIVE GroupLoop(_, _)
GroupLoop(st, boxes) ==
    IF boxes = <<>> THEN st
    ELSE GroupLoop(GroupStep(st, boxes[1]), Tail(boxes))

(* the group still open when the loop ends is never appended *)
GroupLines_DropLast(sorted) ==
    GroupLoop([merged_lines |-> <<>>, current_line |-> <<>>], sorted).merged_lines

GroupLines(sorted) ==
    LET st == GroupLoop([merged_lines |-> <<>>, current_line |-> <<>>], sorted)
    IN  IF st.current_line # <<>>
        THEN Append(st.merged_lines, st.current_line)
        ELSE st.merged_lines

CropOfLine(line) ==
    LET l == SortByKey(line, MIN_X)
    IN  <<MinOver(l, MIN_X), MinOver(l, MIN_Y), MaxOver(l, MAX_X), MaxOver(l, MAX_Y)>>

FinalCrops(merged_lines) ==
    [k \in 1..Len(merged_lines) |-> CropOfLine(merged_lines[k])]

SortTopDown_ByX(boxes) == SortByKey(boxes, MIN_X)

(* raw_boxes.sort(key=lambda b: b[4]) *)
SortTopDown(boxes) == SortByKey(boxes, Y_CENTER)

(* merged_lines of detect_and_merge_lines for the detector output rs *)
MergedLines(rs) == GroupLines(SortTopDown(split_tall_boxes(FilterBoxes(rs))))

detect_and_merge_lines(rs) == FinalCrops(MergedLines(rs))

---------------------------------------------------------------------------
(* SpecSeg: detect_and_merge_lines on bounded detector outputs             *)

(* Detector outputs the model draws from: (x1, y1, x2, y2, skew, prob) *)
DetBoxes ==
    { Quad(0, 0, 50, 20, 0, 90),      \* center 10, height 20
      Quad(60, 5, 90, 23, 0, 80),     \* center 14, height 18
      Quad(0, 191, 40, 209, 0, 80),   \* center 200, height 18
      Quad(60, 12, 90, 32, 0, 70),    \* center 22, height 20
      Quad(0, 0, 50, 7, 0, 99),       \* height 7, high confidence
      Quad(0, 30, 50, 38, 0, 10),     \* height 8, low confidence
      Quad(60, 33, 90, 40, 1, 50),    \* skewed, height 8
      Quad(0, 40, 50, 70, 0, 90),     \* height 30
      Quad(60, 42, 60, 72, 0, 90),    \* height 30, zero width
      Quad(0, 100, 50, 190, 0, 90),   \* height 90
      Quad(0, 40, 50, 71, 0, 60),     \* height 31
      Quad(0, 100, 50, 150, 0, 60),   \* height 50
      Quad(0, 100, 50, 140, 0, 60) }  \* height 40

SeqsUpTo(S, n) == UNION { [1..k -> S] : k \in 0..n }

NoSeg == [boxes |-> <<>>, raw_boxes |-> <<>>, merged_lines |-> <<>>,
          final_crops |-> <<>>]

SegFilter ==
    /\ segpc = "filter"
    /\ seg' = [seg EXCEPT !.raw_boxes = FilterBoxes(results)]
    /\ segpc' = "split"
    /\ UNCHANGED <<results, srvvars, purevars>>

SegSplit ==
    /\ segpc = "split"
    /\ seg' = [seg EXCEPT !.boxes = seg.raw_boxes,
                          !.raw_boxes = split_tall_boxes(seg.raw_boxes)]
    /\ segpc' = "sort"
    /\ UNCHANGED <<results, srvvars, purevars>>

SegSort ==
    /\ segpc = "sort"
    /\ seg' = [seg EXCEPT !.raw_boxes = SortTopDown(seg.raw_boxes)]
    /\ segpc' = "group"
    /\ UNCHANGED <<results, srvvars, purevars>>

SegGroup ==
    /\ segpc = "group"
    /\ seg' = [seg EXCEPT !.merged_lines = GroupLines(seg.raw_boxes)]
    /\ segpc' = "finalize"
    /\ UNCHANGED <<results, srvvars, purevars>>

SegFinalize ==
    /\ segpc = "finalize"
    /\ seg' = [seg EXCEPT !.final_crops = FinalCrops(seg.merged_lines)]
    /\ segpc' = "done"
    /\ UNCHANGED <<results, srvvars, purevars>>

NoClean == [text |-> <<>>, returned |-> FALSE, result |-> <<>>]

NoVerdict == [total_score |-> 0, field_matches |-> <<>>, status |-> "none"]

NoVerify == [form_data |-> <<>>, returned |-> FALSE, result |-> NoVerdict]

PureIdle ==
    /\ cleaner = NoClean
    /\ verifier = NoVerify

SrvIdle ==
    /\ engine = "off"
    /\ models = {}
    /\ fs = <<>>
    /\ debug_crops = <<>>
    /\ req = <<>>

InitSeg ==
    /\ results \in SeqsUpTo(DetBoxes, MaxBoxes)
    /\ seg = NoSeg
    /\ segpc = "filter"
    /\ SrvIdle
    /\ PureIdle

NextSeg == SegFilter \/ SegSplit \/ SegSort \/ SegGroup \/ SegFinalize

SpecSeg == InitSeg /\ [][NextSeg]_vars

---------------------------------------------------------------------------
(* Spec: the server.  Texts are sequences of one-character strings.        *)

WordChars == {"a", "A", "I", "J", "o", "_", "1"}

LowerChar(c) ==
    IF c = "A" THEN "a" ELSE IF c = "I" THEN "i" ELSE IF c = "J" THEN "j" ELSE c

LowerText(text) == [i \in 1..Len(text) |-> LowerChar(text[i])]

(* the exception compared without .lower() *)
clean_text_output_CaseSensitive(text) ==
    IF \A i \in 1..Len(text) : text[i] \notin WordChars THEN <<>>
    ELSE IF Len(text) < 2 /\ text # <<"a">> THEN <<>>
    ELSE text

clean_text_output(text) ==
    IF \A i \in 1..Len(text) : text[i] \notin WordChars THEN <<>>
    ELSE IF Len(text) < 2 /\ LowerText(text) # <<"a">> THEN <<>>
    ELSE text

(* SpecClean: the texts a recogniser can hand to clean_text_output *)
TextChars == WordChars \cup {".", "-"}

Texts == SeqsUpTo(TextChars, MaxTextLen)

Clean ==
    /\ ~cleaner.returned
    /\ cleaner' = [cleaner EXCEPT !.returned = TRUE,
                                  !.result = clean_text_output(cleaner.text)]
    /\ UNCHANGED <<segvars, srvvars, verifier>>

InitClean ==
    /\ cleaner \in { [NoClean EXCEPT !.text = t] : t \in Texts }
    /\ verifier = NoVerify
    /\ results = <<>>
    /\ seg = NoSeg
    /\ segpc = "off"
    /\ SrvIdle

NextClean == Clean

SpecClean == InitClean /\ [][NextClean]_vars

(* "\n".join(full_text) *)
RECURSIVE JoinLines(_)
JoinLines(ls) ==
    IF ls = <<>> THEN <<>>
    ELSE IF Len(ls) = 1 THEN ls[1]
    ELSE ls[1] \o <<"\n">> \o JoinLines(Tail(ls))

(* Images a client can submit: Laplacian variance in hundredths, size, and *)
(* what the detector finds on the image.                                   *)
Img ==
    << [blur |-> 8499, h |-> 240, w |-> 100,
        results |-> << Quad(0, 0, 50, 20, 0, 90) >>],
       [blur |-> 8500, h |-> 240, w |-> 100,
        results |-> << Quad(0, 191, 40, 209, 0, 80), Quad(60, 5, 90, 23, 0, 80),
                       Quad(0, 0, 50, 20, 0, 90), Quad(0, 0, 50, 7, 0, 99) >>],
       [blur |-> 12000, h |-> 60, w |-> 100,
        results |-> << Quad(0, 30, 50, 38, 0, 10) >>],
       [blur |-> 30000, h |-> 240, w |-> 100,
        results |-> << Quad(0, 100, 50, 190, 0, 90), Quad(0, 40, 50, 70, 0, 90),
                       Quad(60, 42, 60, 72, 0, 90) >>],
       [blur |-> 8504, h |-> 240, w |-> 100,
        results |-> << Quad(60, 12, 90, 32, 0, 70), Quad(0, 0, 50, 20, 0, 90) >>],
       [blur |-> 9000, h |-> 240, w |-> 100, results |-> << >>] >>

ImgIds == 1..Len(Img)

NoContent == [kind |-> "none", img |-> 0]
ImageFile(i) == [kind |-> "image", img |-> i]
PdfFile(i) == [kind |-> "pdf", img |-> i]
EmptyFile == [kind |-> "empty", img |-> 0]
CorruptPdf == [kind |-> "corrupt", img |-> 0]

ALLOWED_EXTENSIONS == {"png", "jpg", "jpeg", "bmp", "tiff", "pdf"}

LowerName(e) == IF e = "JPG" THEN "jpg" ELSE IF e = "EXE" THEN "exe" ELSE e

(* File names are sequences of pieces; "." is a piece of its own *)
LastDot(fn) ==
    IF \E i \in 1..Len(fn) : fn[i] = "."
    THEN CHOOSE i \in 1..Len(fn) : fn[i] = "." /\ \A j \in (i + 1)..Len(fn) : fn[j] # "."
    ELSE 0

(* '.' in filename and filename.rsplit('.', 1)[1].lower() in ALLOWED_EXTENSIONS *)
allowed_file(fn) ==
    /\ LastDot(fn) > 0
    /\ LET ext == SubSeq(fn, LastDot(fn) + 1, Len(fn))
       IN  Len(ext) = 1 /\ LowerName(ext[1]) \in ALLOWED_EXTENSIONS

(* werkzeug secure_filename: directory parts do not survive *)
RECURSIVE secure_filename(_)
secure_filename(fn) ==
    IF fn = <<>> THEN <<>>
    ELSE IF fn[1] = "../" THEN secure_filename(Tail(fn))
    ELSE <<fn[1]>> \o secure_filename(Tail(fn))

(* filename.lower().endswith('.pdf') *)
IsPdfName(fn) ==
    Len(fn) >= 2 /\ fn[Len(fn) - 1] = "." /\ LowerName(fn[Len(fn)]) = "pdf"

Base64Path == <<"temp_ocr_image", ".", "jpg">>

NoPath == <<>>

Modes == {"handwritten", "printed"}

(* multipart requests to /extract and /api/ocr/upload *)
NoUpload == [has_file |-> FALSE, filename |-> <<>>, content |-> NoContent]

Uploads ==
    { NoUpload,
      [has_file |-> TRUE, filename |-> <<>>, content |-> NoContent],
      [has_file |-> TRUE, filename |-> <<"x", ".", "EXE">>, content |-> ImageFile(2)],
      [has_file |-> TRUE, filename |-> <<"noext">>, content |-> ImageFile(2)],
      [has_file |-> TRUE, filename |-> <<"a", ".", "jpg">>, content |-> ImageFile(1)],
      [has_file |-> TRUE, filename |-> <<"a", ".", "jpg">>, content |-> ImageFile(2)],
      [has_file |-> TRUE, filename |-> <<"../", "a", ".", "jpg">>, content |-> ImageFile(3)],
      [has_file |-> TRUE, filename |-> <<"doc", ".", "pdf">>, content |-> PdfFile(2)],
      [has_file |-> TRUE, filename |-> <<"doc", ".", "pdf">>, content |-> CorruptPdf],
      [has_file |-> TRUE, filename |-> <<"a", ".", "JPG">>, content |-> ImageFile(4)],
      [has_file |-> TRUE, filename |-> <<"a", ".", "JPG">>, content |-> ImageFile(6)] }

ModeInputs == {"absent", "handwritten", "printed", "cursive"}

(* JSON bodies of /api/ocr/process-base64 *)
NoB64 == [has_data |-> FALSE, has_image |-> FALSE, prefix |-> FALSE,
          valid |-> FALSE, img |-> 0]

B64Payloads ==
    { NoB64,
      [has_data |-> TRUE, has_image |-> FALSE, prefix |-> FALSE, valid |-> FALSE, img |-> 0],
      [has_data |-> TRUE, has_image |-> TRUE, prefix |-> FALSE, valid |-> FALSE, img |-> 0],
      [has_data |-> TRUE, has_image |-> TRUE, prefix |-> TRUE, valid |-> TRUE, img |-> 1],
      [has_data |-> TRUE, has_image |-> TRUE, prefix |-> FALSE, valid |-> TRUE, img |-> 2],
      [has_data |-> TRUE, has_image |-> TRUE, prefix |-> TRUE, valid |-> TRUE, img |-> 3],
      [has_data |-> TRUE, has_image |-> TRUE, prefix |-> FALSE, valid |-> TRUE, img |-> 5] }

(* JSON bodies of /verify.  shape: what request.get_json() meets;          *)
(* keys: the names `in` finds in the parsed value.                         *)
NoPayload == [shape |-> "none", keys |-> {}, ocr_is_str |-> FALSE,
              form_is_dict |-> FALSE, form |-> <<>>]

Payload(shape, keys, s, d, form) ==
    [shape |-> shape, keys |-> keys, ocr_is_str |-> s, form_is_dict |-> d,
     form |-> form]

(* The ocr_text of the /verify requests, and the values a form_data dict   *)
(* holds: JSON strings and JSON numbers.                                   *)
OcrText == "Name: John Doe, Age: 30"

StrValue(s) == [kind |-> "str", s |-> s, n |-> 0]
IntValue(n) == [kind |-> "int", s |-> "", n |-> n]

FieldValues ==
    { StrValue("John Doe"), IntValue(30), StrValue("Johnx"), StrValue("John Z"),
      StrValue("John Doe, Z"), StrValue("zzz") }

FieldNames == {"a", "b", "name"}

(* form_data: a dict, field name -> expected value *)
Forms ==
    { <<>>,
      [name |-> StrValue("John Doe")],
      [a |-> StrValue("John Doe"), b |-> StrValue("Johnx")],
      [a |-> IntValue(30), b |-> StrValue("John Z")] }

VerifyPayloads ==
    { Payload("malformed", {}, FALSE, FALSE, <<>>),
      Payload("null", {}, FALSE, FALSE, <<>>),
      Payload("number", {}, FALSE, FALSE, <<>>),
      Payload("list", {}, FALSE, FALSE, <<>>),
      Payload("list", {"ocr_text", "form_data"}, FALSE, FALSE, <<>>),
      Payload("object", {}, FALSE, FALSE, <<>>),
      Payload("object", {"other"}, FALSE, FALSE, <<>>),
      Payload("object", {"form_data"}, FALSE, TRUE, <<>>),
      Payload("object", {"ocr_text"}, TRUE, FALSE, <<>>),
      Payload("object", {"ocr_text", "form_data"}, FALSE, TRUE, <<>>),
      Payload("object", {"ocr_text", "form_data"}, TRUE, FALSE, <<>>) }
    \cup { Payload("object", {"ocr_text", "form_data"}, TRUE, TRUE, f) : f \in Forms }

Reqs == {1, 2}

NoError == [kind |-> "none", score |-> 0, minimum |-> 0]
Error(kind) == [kind |-> kind, score |-> 0, minimum |-> 0]

NoResult == [total_score |-> -1, field_matches |-> <<>>, status |-> "none"]

NoResponse == [code |-> 0, keys |-> {}, error |-> NoError, text |-> <<>>,
               result |-> NoResult]

Idle ==
    [ep |-> "none", pc |-> "idle", upload |-> NoUpload, mode_in |-> "absent",
     b64 |-> NoB64, payload |-> NoPayload,
     mode |-> "none", filename |-> <<>>, temp_path |-> NoPath,
     temp_png_path |-> NoPath, actual_image_path |-> NoPath,
     original |-> 0, ran |-> {}, dir_seen |-> FALSE,
     lines |-> <<>>, line_boxes |-> <<>>, i |-> 0, full_text |-> <<>>,
     line_src |-> <<>>, rec_log |-> <<>>, ocr_state |-> "none", extracted_text |-> <<>>,
     exc |-> NoError, phase |-> "none", resp |-> NoResponse]

Init ==
    /\ results = <<>>
    /\ seg = NoSeg
    /\ segpc = "off"
    /\ engine = "load_handwritten"
    /\ models = {}
    /\ fs = <<>>
    /\ debug_crops = [exists |-> FALSE, files |-> <<>>]
    /\ req = [r \in Reqs |-> Idle]
    /\ PureIdle

(* OCREngine.__init__: the two _load_model calls, then easyocr.Reader *)
LoadModel(name, ok) ==
    /\ engine = "load_" \o name
    /\ models' = IF ok THEN models \cup {name} ELSE models
    /\ engine' = IF name = "handwritten" THEN "load_printed" ELSE "load_detector"
    /\ UNCHANGED <<fs, debug_crops, req, segvars, purevars>>

LoadDetector(ok) ==
    /\ engine = "load_detector"
    /\ engine' = IF ok THEN "ready" ELSE "fatal"
    /\ UNCHANGED <<models, fs, debug_crops, req, segvars, purevars>>

EngineStart ==
    \/ \E name \in Modes, ok \in BOOLEAN : LoadModel(name, ok)
    \/ \E ok \in BOOLEAN : LoadDetector(ok)

(* A request reaches /extract or /api/ocr/upload *)
ArriveUpload(r, uploads, modes) ==
    /\ engine = "ready"
    /\ req[r].pc = "idle"
    /\ \E ep \in {"extract", "upload"}, u \in uploads, m \in modes :
          req' = [req EXCEPT ![r] = [Idle EXCEPT !.ep = ep, !.pc = "validate",
                                                !.upload = u, !.mode_in = m]]
    /\ UNCHANGED <<engine, models, fs, debug_crops, segvars, purevars>>

(* A request reaches /api/ocr/process-base64 *)
ArriveBase64(r, payloads, modes) ==
    /\ engine = "ready"
    /\ req[r].pc = "idle"
    /\ \E b \in payloads, m \in modes :
          req' = [req EXCEPT ![r] = [Idle EXCEPT !.ep = "base64", !.pc = "validate",
                                                !.b64 = b, !.mode_in = m]]
    /\ UNCHANGED <<engine, models, fs, debug_crops, segvars, purevars>>

(* A request reaches /verify *)
ArriveVerify(r) ==
    /\ engine = "ready"
    /\ req[r].pc = "idle"
    /\ \E p \in VerifyPayloads :
          req' = [req EXCEPT ![r] = [Idle EXCEPT !.ep = "verify", !.pc = "validate",
                                                !.payload = p]]
    /\ UNCHANGED <<engine, models, fs, debug_crops, segvars, purevars>>

(* return jsonify({'error': msg}), 400 *)
Reject400(rq, msg) ==
    [rq EXCEPT !.pc = "done",
               !.resp = [NoResponse EXCEPT !.code = 400, !.keys = {"error"},
                                           !.error = Error(msg)]]

(* the outer `except Exception as e` of a handler: 500 with str(e) *)
Fail500(rq, e) ==
    [rq EXCEPT !.pc = "done",
               !.resp = [NoResponse EXCEPT
                           !.code = 500,
                           !.keys = IF rq.ep \in {"upload", "base64"}
                                    THEN {"success", "error"} ELSE {"error"},
                           !.error = e]]

(* request.form.get('mode', 'handwritten') / data.get('mode', 'handwritten') *)
ModeOf(mode_in) == IF mode_in = "absent" THEN "handwritten" ELSE mode_in


(* Recognizer outcomes the model draws from: a raised exception or a text *)
RecTexts == { <<"J", "o">>, <<".">> }

RecOutcomes ==
    { [raised |-> TRUE, text |-> <<>>] }
        \cup { [raised |-> FALSE, text |-> t] : t \in RecTexts }

Exists(path) == path \in DOMAIN fs

WriteFile(path, c) == [p \in DOMAIN fs \cup {path} |-> IF p = path THEN c ELSE fs[p]]

RemoveFile(path) == [p \in DOMAIN fs \ {path} |-> fs[p]]

Upd(r, rq) == req' = [req EXCEPT ![r] = rq]

(* an exception raised inside the inner try of a handler *)
Raise(rq, e) == [rq EXCEPT !.exc = e, !.phase = "ex", !.pc = "cl_exists"]

(* extract_text raises e / returns "\n".join(full_text) to the handler *)
OcrRaise(rq, e) == Raise([rq EXCEPT !.ocr_state = "raised"], e)

OcrReturn(rq) ==
    [rq EXCEPT !.ocr_state = "returned",
               !.extracted_text = JoinLines(rq.full_text),
               !.pc = "cl_exists"]

Respond200(rq) ==
    [rq EXCEPT
       !.pc = "done",
       !.resp = [NoResponse EXCEPT
                   !.code = 200,
                   !.keys = IF rq.ep = "extract" THEN {"filename", "extracted_text"}
                            ELSE IF rq.ep = "upload"
                                 THEN {"success", "text", "mode", "filename"}
                                 ELSE {"success", "text", "mode"},
                   !.text = rq.extracted_text]]

(* leaving the clean-up of either branch: return 200, or `raise ocr_error` *)
Finish(rq) == IF rq.phase = "ok" THEN Respond200(rq) ELSE Fail500(rq, rq.exc)

(* extract / upload_and_process, up to `filename = secure_filename(...)` *)
ValidateUpload(r) ==
    LET rq == req[r]
        u == rq.upload
    IN  /\ rq.pc = "validate"
        /\ rq.ep \in {"extract", "upload"}
        /\ Upd(r, IF ~u.has_file THEN Reject400(rq, "No file provided")
                  ELSE IF u.filename = <<>> THEN Reject400(rq, "No file selected")
                  ELSE IF ~allowed_file(u.filename) THEN Reject400(rq, "Invalid file type")
                  ELSE IF ModeOf(rq.mode_in) \notin Modes THEN Reject400(rq, "Invalid mode")
                  ELSE [rq EXCEPT !.pc = "save",
                                  !.mode = ModeOf(rq.mode_in),
                                  !.filename = secure_filename(u.filename),
                                  !.temp_path = secure_filename(u.filename)])
        /\ UNCHANGED <<engine, models, fs, debug_crops, segvars, purevars>>

(* file.save(temp_path) *)
SaveUpload(r) ==
    LET rq == req[r]
    IN  /\ rq.pc = "save"
        /\ fs' = WriteFile(rq.temp_path, rq.upload.content)
        /\ Upd(r, [rq EXCEPT !.actual_image_path = rq.temp_path,
                             !.phase = "ok",
                             !.pc = IF IsPdfName(rq.filename) THEN "pdf" ELSE "imread"])
        /\ UNCHANGED <<engine, models, debug_crops, segvars, purevars>>

(* fitz.open(temp_path) ... pix.save(temp_png_path) *)
ConvertPdf(r) ==
    LET rq == req[r]
        png == rq.filename \o <<"_page0.png">>
    IN  /\ rq.pc = "pdf"
        /\ IF Exists(rq.temp_path) /\ fs[rq.temp_path].kind = "pdf"
           THEN /\ fs' = WriteFile(png, ImageFile(fs[rq.temp_path].img))
                /\ Upd(r, [rq EXCEPT !.temp_png_path = png,
                                     !.actual_image_path = png,
                                     !.pc = "imread"])
           ELSE /\ fs' = fs
                /\ Upd(r, Raise(rq, Error("PDF conversion failed")))
        /\ UNCHANGED <<engine, models, debug_crops, segvars, purevars>>

(* process_base64, up to `with open(temp_path, 'wb') as f: f.write(...)` *)
ValidateBase64(r) ==
    LET rq == req[r]
        b == rq.b64
    IN  /\ rq.pc = "validate"
        /\ rq.ep = "base64"
        /\ Upd(r, IF ~b.has_data \/ ~b.has_image
                  THEN Reject400(rq, "No image data provided")
                  ELSE IF ModeOf(rq.mode_in) \notin Modes THEN Reject400(rq, "Invalid mode")
                  ELSE [rq EXCEPT !.pc = "b64_write",
                                  !.mode = ModeOf(rq.mode_in),
                                  !.temp_path = Base64Path])
        /\ UNCHANGED <<engine, models, fs, debug_crops, segvars, purevars>>

WriteBase64(r) ==
    LET rq == req[r]
    IN  /\ rq.pc = "b64_write"
        /\ IF rq.b64.valid
           THEN /\ fs' = WriteFile(rq.temp_path, ImageFile(rq.b64.img))
                /\ Upd(r, [rq EXCEPT !.actual_image_path = rq.temp_path,
                                     !.phase = "ok", !.pc = "imread"])
           ELSE /\ fs' = WriteFile(rq.temp_path, EmptyFile)
                /\ Upd(r, Fail500(rq, Error("binascii.Error")))
        /\ UNCHANGED <<engine, models, debug_crops, segvars, purevars>>

(* f"{blur_score:.1f}", in tenths *)
Format1f(score) == RoundHalfEven(score, 10)

is_blurry_Old100(image) == Img[image].blur < 100 * 100

is_blurry(image) == Img[image].blur < BlurThreshold * 100

(* extract_text: cv2.imread *)
Imread(r) ==
    LET rq == req[r]
        c == IF Exists(rq.actual_image_path) THEN fs[rq.actual_image_path] ELSE NoContent
    IN  /\ rq.pc = "imread"
        /\ Upd(r, IF c.kind = "image"
                  THEN [rq EXCEPT !.original = c.img, !.pc = "quality",
                                  !.ran = @ \cup {"extract_text"}]
                  ELSE OcrRaise([rq EXCEPT !.ran = @ \cup {"extract_text"}],
                                Error("Error: Image not found")))
        /\ UNCHANGED <<engine, models, fs, debug_crops, segvars, purevars>>

(* extract_text: STEP 1 blur check, STEP 2 adaptive_preprocess *)
QualityGate(r) ==
    LET rq == req[r]
    IN  /\ rq.pc = "quality"
        /\ Upd(r, IF is_blurry(rq.original)
                  THEN OcrRaise([rq EXCEPT !.ran = @ \cup {"is_blurry"}],
                                [kind |-> "Image quality too low for accurate OCR",
                                 score |-> Format1f(Img[rq.original].blur),
                                 minimum |-> BlurThreshold])
                  ELSE [rq EXCEPT !.ran = @ \cup {"is_blurry", "adaptive_preprocess"},
                                  !.pc = "dbg_exists"])
        /\ UNCHANGED <<engine, models, fs, debug_crops, segvars, purevars>>

(* if os.path.exists(debug_dir) *)
DebugExists(r) ==
    LET rq == req[r]
    IN  /\ rq.pc = "dbg_exists"
        /\ Upd(r, [rq EXCEPT !.dir_seen = debug_crops.exists,
                             !.ran = @ \cup {"debug_reset"},
                             !.pc = IF debug_crops.exists THEN "dbg_rmtree"
                                    ELSE "dbg_makedirs"])
        /\ UNCHANGED <<engine, models, fs, debug_crops, segvars, purevars>>

(* shutil.rmtree(debug_dir) *)
DebugRmtree(r) ==
    LET rq == req[r]
    IN  /\ rq.pc = "dbg_rmtree"
        /\ IF debug_crops.exists
           THEN /\ debug_crops' = [exists |-> FALSE, files |-> <<>>]
                /\ Upd(r, [rq EXCEPT !.pc = "dbg_makedirs"])
           ELSE /\ debug_crops' = debug_crops
                /\ Upd(r, OcrRaise(rq, Error("FileNotFoundError")))
        /\ UNCHANGED <<engine, models, fs, segvars, purevars>>

(* os.makedirs(debug_dir), then detect_and_merge_lines *)
DebugMakedirs(r) ==
    LET rq == req[r]
        merged == MergedLines(Img[rq.original].results)
        boxes == detect_and_merge_lines(Img[rq.original].results)
    IN  /\ rq.pc = "dbg_makedirs"
        /\ IF debug_crops.exists
           THEN /\ debug_crops' = debug_crops
                /\ Upd(r, OcrRaise(rq, Error("FileExistsError")))
           ELSE /\ debug_crops' = [exists |-> TRUE, files |-> <<>>]
                /\ Upd(r, LET det == [rq EXCEPT !.lines = merged, !.line_boxes = boxes,
                                                 !.ran = @ \cup {"detect_and_merge_lines"},
                                                 !.pc = "line"]
                          IN  IF boxes = <<>> THEN OcrReturn(det) ELSE det)
        /\ UNCHANGED <<engine, models, fs, segvars, purevars>>

(* the padded crop of line i, clamped to the image *)
CropRect(box, image) ==
    << Max2(0, box[1] - PadX), Max2(0, box[2] - PadY),
       Min2(Img[image].w, box[3] + PadX), Min2(Img[image].h, box[4] + PadY) >>

ExceptContinue_Break(it, last) == OcrReturn(it)

(* `except: continue` at the end of a loop iteration *)
ExceptContinue(it, last) == IF last THEN OcrReturn(it) ELSE it

(* one iteration of the recognition loop: write the debug crop, recognize *)
ProcessLine(r, outcome) ==
    LET rq == req[r]
        i == rq.i
        rect == CropRect(rq.line_boxes[i + 1], rq.original)
        crop == [owner |-> r, img |-> rq.original, rect |-> rect]
        raised == rq.mode \notin models \/ outcome.raised
        cleaned == IF raised THEN <<>> ELSE clean_text_output(outcome.text)
        last == i + 1 = Len(rq.line_boxes)
    IN  /\ rq.pc = "line"
        /\ (rq.mode \notin models) => outcome.raised
        /\ debug_crops' =
              IF debug_crops.exists
              THEN [debug_crops EXCEPT !.files =
                      [k \in DOMAIN debug_crops.files \cup {i} |->
                          IF k = i THEN crop ELSE debug_crops.files[k]]]
              ELSE debug_crops
        /\ Upd(r, LET it == [rq EXCEPT
                                !.ran = @ \cup {"recognize"},
                                !.i = i + 1,
                                !.rec_log = Append(@, [raised |-> raised,
                                                       text |-> IF raised THEN <<>>
                                                                ELSE outcome.text]),
                                !.full_text = IF cleaned # <<>> THEN Append(@, cleaned) ELSE @,
                                !.line_src = IF cleaned # <<>> THEN Append(@, i) ELSE @]
                  IN  IF raised THEN ExceptContinue(it, last)
                      ELSE IF last THEN OcrReturn(it) ELSE it)
        /\ UNCHANGED <<engine, models, fs, segvars, purevars>>

(* clean-up of the stored upload: if os.path.exists(temp_path) *)
CleanupExists(r) ==
    LET rq == req[r]
    IN  /\ rq.pc = "cl_exists"
        /\ Upd(r, IF rq.ep = "base64" /\ rq.phase = "ok"
                  THEN [rq EXCEPT !.pc = "cl_remove"]
                  ELSE IF Exists(rq.temp_path) THEN [rq EXCEPT !.pc = "cl_remove"]
                  ELSE IF rq.temp_png_path # NoPath THEN [rq EXCEPT !.pc = "cl_png_exists"]
                  ELSE Finish(rq))
        /\ UNCHANGED <<engine, models, fs, debug_crops, segvars, purevars>>

(* os.remove(path) inside a handler's inner try, or inside its except *)
RemoveOrRaise(r, path, next) ==
    LET rq == req[r]
    IN  IF Exists(path)
        THEN /\ fs' = RemoveFile(path)
             /\ Upd(r, next)
        ELSE /\ fs' = fs
             /\ Upd(r, IF rq.phase = "ok" THEN Raise(rq, Error("FileNotFoundError"))
                       ELSE Fail500(rq, Error("FileNotFoundError")))

CleanupRemove(r) ==
    LET rq == req[r]
    IN  /\ rq.pc = "cl_remove"
        /\ RemoveOrRaise(r, rq.temp_path,
                         IF rq.temp_png_path # NoPath
                         THEN [rq EXCEPT !.pc = "cl_png_exists"] ELSE Finish(rq))
        /\ UNCHANGED <<engine, models, debug_crops, segvars, purevars>>

CleanupPngExists(r) ==
    LET rq == req[r]
    IN  /\ rq.pc = "cl_png_exists"
        /\ Upd(r, IF Exists(rq.temp_png_path) THEN [rq EXCEPT !.pc = "cl_png_remove"]
                  ELSE Finish(rq))
        /\ UNCHANGED <<engine, models, fs, debug_crops, segvars, purevars>>

CleanupPngRemove(r) ==
    LET rq == req[r]
    IN  /\ rq.pc = "cl_png_remove"
        /\ RemoveOrRaise(r, rq.temp_png_path, Finish(rq))
        /\ UNCHANGED <<engine, models, debug_crops, segvars, purevars>>

(* str(expected_value) *)
Str(value) ==
    IF value.kind = "int" THEN (IF value.n = 30 THEN "30" ELSE "0") ELSE value.s

(* fuzz.partial_ratio(s1, s2) for s2 = OcrText: 100 for a substring of s2, *)
(* otherwise round(100 * (2 * len(s1) - 2 * k) / (2 * len(s1))) where k of *)
(* the characters of s1 differ from the best window of s2, 0 if none match *)
partial_ratio(s1, s2) ==
    CASE s1 = "John Doe" -> 100
      [] s1 = "30" -> 100
      [] s1 = "John Doe, Z" -> 91
      [] s1 = "John Z" -> 83
      [] s1 = "Johnx" -> 80
      [] OTHER -> 0

(* the loop over form_data.items() *)
FieldScores(ocr_text, form_data) ==
    [field_name \in DOMAIN form_data |->
        partial_ratio(Str(form_data[field_name]), ocr_text)]

(* sum(field_scores.values()) *)
RECURSIVE SumScores(_)
SumScores(field_scores) ==
    IF DOMAIN field_scores = {} THEN 0
    ELSE LET k == CHOOSE k \in DOMAIN field_scores : TRUE
         IN  field_scores[k]
             + SumScores([j \in DOMAIN field_scores \ {k} |-> field_scores[j]])

(* the average rounded to the nearest integer instead of floored *)
TotalScore_Rounded(field_scores) ==
    IF DOMAIN field_scores # {}
    THEN (2 * SumScores(field_scores) + Cardinality(DOMAIN field_scores))
         \div (2 * Cardinality(DOMAIN field_scores))
    ELSE 0

TotalScore(field_scores) ==
    IF DOMAIN field_scores # {}
    THEN SumScores(field_scores) \div Cardinality(DOMAIN field_scores)
    ELSE 0

(* the threshold taken inclusively *)
StatusOf_AtLeast90(total_score) ==
    IF total_score >= 90 THEN "verified" ELSE "review_required"

StatusOf(total_score) ==
    IF total_score > 90 THEN "verified" ELSE "review_required"

verify_form_data(ocr_text, form_data) ==
    LET field_scores == FieldScores(ocr_text, form_data)
        total_score == TotalScore(field_scores)
    IN  [total_score |-> total_score,
         field_matches |-> field_scores,
         status |-> StatusOf(total_score)]

(* SpecVerify: verify_form_data applied to every field mapping of up to    *)
(* MaxFields fields                                                        *)
AllForms ==
    UNION { [S -> FieldValues] :
              S \in { T \in SUBSET FieldNames : Cardinality(T) <= MaxFields } }

VerifyForm ==
    /\ ~verifier.returned
    /\ verifier' = [verifier EXCEPT
                      !.returned = TRUE,
                      !.result = verify_form_data(OcrText, verifier.form_data)]
    /\ UNCHANGED <<segvars, srvvars, cleaner>>

InitVerify ==
    /\ verifier \in { [NoVerify EXCEPT !.form_data = f] : f \in AllForms }
    /\ cleaner = NoClean
    /\ results = <<>>
    /\ seg = NoSeg
    /\ segpc = "off"
    /\ SrvIdle

NextVerify == VerifyForm

SpecVerify == InitVerify /\ [][NextVerify]_vars

(* the /verify handler *)
Verify(r) ==
    LET rq == req[r]
        p == rq.payload
    IN  /\ rq.pc = "validate"
        /\ rq.ep = "verify"
        /\ Upd(r,
             IF p.shape = "malformed" THEN Fail500(rq, Error("BadRequest"))
             ELSE IF p.shape = "null" \/ (p.shape = "object" /\ p.keys = {})
                  THEN Reject400(rq, "No JSON data provided")
             ELSE IF p.shape = "number" THEN Fail500(rq, Error("TypeError"))
             ELSE IF "ocr_text" \notin p.keys THEN Reject400(rq, "Missing ocr_text field")
             ELSE IF "form_data" \notin p.keys THEN Reject400(rq, "Missing form_data field")
             ELSE IF p.shape = "list" THEN Fail500(rq, Error("TypeError"))
             ELSE IF ~p.ocr_is_str THEN Reject400(rq, "ocr_text must be a string")
             ELSE IF ~p.form_is_dict THEN Reject400(rq, "form_data must be an object")
             ELSE [rq EXCEPT
                     !.pc = "done",
                     !.ran = @ \cup {"verify_form_data"},
                     !.resp = [NoResponse EXCEPT
                                 !.code = 200,
                                 !.keys = {"total_score", "field_matches", "status"},
                                 !.result = verify_form_data(OcrText, p.form)]])
        /\ UNCHANGED <<engine, models, fs, debug_crops, segvars, purevars>>

(* the response has been sent; the worker takes the next request *)
Recycle(r) ==
    /\ req[r].pc = "done"
    /\ Upd(r, Idle)
    /\ UNCHANGED <<engine, models, fs, debug_crops, segvars, purevars>>

(* extract_text and the clean-up around it, shared by the three handlers *)
Pipeline(r, outcomes) ==
    \/ Imread(r)
    \/ QualityGate(r)
    \/ DebugExists(r)
    \/ DebugRmtree(r)
    \/ DebugMakedirs(r)
    \/ \E outcome \in outcomes : ProcessLine(r, outcome)
    \/ CleanupExists(r)
    \/ CleanupRemove(r)
    \/ Recycle(r)

Handler(r) ==
    \/ ArriveUpload(r, Uploads, ModeInputs)
    \/ ArriveBase64(r, B64Payloads, ModeInputs)
    \/ ArriveVerify(r)
    \/ ValidateUpload(r)
    \/ SaveUpload(r)
    \/ ConvertPdf(r)
    \/ ValidateBase64(r)
    \/ WriteBase64(r)
    \/ CleanupPngExists(r)
    \/ CleanupPngRemove(r)
    \/ Verify(r)
    \/ Pipeline(r, RecOutcomes)

(* Spec: the engine starts, then one worker serves requests one at a time *)
Next == EngineStart \/ Handler(1)

Spec == Init /\ [][Next]_vars

(* SpecConc: a started engine with both models, and the threaded server     *)
(* running the handlers of the document endpoints concurrently.            *)
ConcUploads ==
    { [has_file |-> TRUE, filename |-> <<"a", ".", "jpg">>, content |-> ImageFile(2)],
      [has_file |-> TRUE, filename |-> <<"../", "a", ".", "jpg">>, content |-> ImageFile(3)],
      [has_file |-> TRUE, filename |-> <<"doc", ".", "pdf">>, content |-> PdfFile(2)] }

ConcB64 ==
    { [has_data |-> TRUE, has_image |-> TRUE, prefix |-> TRUE, valid |-> TRUE, img |-> 1],
      [has_data |-> TRUE, has_image |-> TRUE, prefix |-> TRUE, valid |-> TRUE, img |-> 3] }

ConcModes == {"printed"}

ConcOutcomes ==
    { [raised |-> TRUE, text |-> <<>>], [raised |-> FALSE, text |-> <<"J", "o">>] }

InitConc ==
    /\ results = <<>>
    /\ seg = NoSeg
    /\ segpc = "off"
    /\ engine = "ready"
    /\ models = Modes
    /\ fs = <<>>
    /\ debug_crops = [exists |-> FALSE, files |-> <<>>]
    /\ req = [r \in Reqs |-> Idle]
    /\ PureIdle

ConcHandler(r) ==
    \/ ArriveUpload(r, ConcUploads, ConcModes)
    \/ ArriveBase64(r, ConcB64, ConcModes)
    \/ ValidateUpload(r)
    \/ SaveUpload(r)
    \/ ConvertPdf(r)
    \/ ValidateBase64(r)
    \/ WriteBase64(r)
    \/ CleanupPngExists(r)
    \/ CleanupPngRemove(r)
    \/ Pipeline(r, ConcOutcomes)

NextConc == \E r \in Reqs : ConcHandler(r)

SpecConc == InitConc /\ [][NextConc]_vars


---------------------------------------------------------------------------
(* Properties of detect_and_merge_lines, checked under SpecSeg.  The       *)
(* definitions below restate each rule from the detector output alone and  *)
(* use none of the operators that model the code.                          *)

ResMinY(res) == LET a == res[1][1][2]  b == res[1][2][2] IN IF a < b THEN a ELSE b
ResMaxY(res) == LET a == res[1][4][2]  b == res[1][3][2] IN IF a > b THEN a ELSE b
ResMinX(res) == LET a == res[1][1][1]  b == res[1][4][1] IN IF a < b THEN a ELSE b
ResMaxX(res) == LET a == res[1][2][1]  b == res[1][3][1] IN IF a > b THEN a ELSE b
ResHeight(res) == ResMaxY(res) - ResMinY(res)

KeptResults == { i \in 1..Len(results) : ResHeight(results[i]) >= 8 }

InsideKept(b) ==
    \E i \in KeptResults :
        /\ b[1] = ResMinX(results[i]) /\ b[3] = ResMaxX(results[i])
        /\ b[2] >= ResMinY(results[i]) /\ b[4] <= ResMaxY(results[i])

(* C9: a detection box of height below 8 is always discarded, whatever its
   confidence: it is not among the filtered boxes, it is not counted in the
   median used for splitting (the argument of split_tall_boxes), and every
   member of every group and every crop rectangle comes from boxes of height
   8 or more only; a detection box of height 8 or more is never removed by
   the filter. *)
C9_SmallBoxesDiscarded ==
    /\ segpc = "split" =>
         /\ Len(seg.raw_boxes) = Cardinality(KeptResults)
         /\ \A i \in KeptResults :
              \E j \in 1..Len(seg.raw_boxes) :
                 seg.raw_boxes[j] =
                    <<ResMinX(results[i]), ResMinY(results[i]),
                      ResMaxX(results[i]), ResMaxY(results[i]),
                      (ResMinY(results[i]) + ResMaxY(results[i])) \div 2,
                      ResHeight(results[i])>>
         /\ \A j \in 1..Len(seg.raw_boxes) : seg.raw_boxes[j][6] >= 8
    /\ segpc \in {"sort", "group", "finalize", "done"} =>
         /\ Len(seg.boxes) = Cardinality(KeptResults)
         /\ \A j \in 1..Len(seg.boxes) : seg.boxes[j][6] >= 8
    /\ segpc = "done" =>
         /\ \A k \in 1..Len(seg.merged_lines) :
              \A j \in 1..Len(seg.merged_lines[k]) :
                 InsideKept(seg.merged_lines[k][j])
         /\ \A k \in 1..Len(seg.final_crops) :
              LET c == seg.final_crops[k] IN
              /\ \E i \in KeptResults : c[1] = ResMinX(results[i])
              /\ \E i \in KeptResults : c[3] = ResMaxX(results[i])
              /\ \E i \in KeptResults : c[2] >= ResMinY(results[i])
              /\ \E i \in KeptResults : c[4] <= ResMaxY(results[i])
         /\ (KeptResults = {}) => seg.final_crops = <<>>

C9_Witness ==
    /\ segpc = "done"
    /\ \E i \in 1..Len(results) : ResHeight(results[i]) = 7 /\ results[i][3] >= 90
    /\ \E i \in 1..Len(results) : ResHeight(results[i]) = 8 /\ results[i][3] <= 10
    /\ Len(seg.final_crops) >= 1

RECURSIVE FlattenLines(_)
FlattenLines(ls) == IF ls = <<>> THEN <<>> ELSE ls[1] \o FlattenLines(Tail(ls))

RECURSIVE SumField(_, _)
SumField(s, k) == IF s = <<>> THEN 0 ELSE s[1][k] + SumField(Tail(s), k)

(* |center - average center of g| < 0.6 * average height of g, in integers *)
NearGroup(b, g) ==
    LET n == Len(g)
        d == b[5] * n - SumField(g, 5)
    IN  10 * (IF d < 0 THEN -d ELSE d) < 6 * SumField(g, 6)

HeightsAre(hs) ==
    /\ Len(results) = Len(hs)
    /\ \A i \in 1..Len(hs) : ResHeight(results[i]) = hs[i]

CentersAre(cs) ==
    /\ Len(results) = Len(cs)
    /\ \A i \in 1..Len(cs) :
          (ResMinY(results[i]) + ResMaxY(results[i])) \div 2 = cs[i]

(* C7: the groups are the sorted boxes cut into consecutive runs; a box
   joins the current group exactly when its vertical center differs from the
   average center of the group's members so far by strictly less than 0.6
   times their average height, and otherwise starts a new group.  Boxes
   (center 10, height 20) and (center 14, height 18) end in one line; boxes
   (center 10, height 20) and (center 200, height 18) end in two lines. *)
C7_LineGrouping ==
    segpc \in {"finalize", "done"} =>
      /\ FlattenLines(seg.merged_lines) = seg.raw_boxes
      /\ \A p \in 1..(Len(seg.raw_boxes) - 1) :
            seg.raw_boxes[p][5] <= seg.raw_boxes[p + 1][5]
      /\ \A k \in 1..Len(seg.merged_lines) :
            LET line == seg.merged_lines[k] IN
            /\ line # <<>>
            /\ \A j \in 2..Len(line) : NearGroup(line[j], SubSeq(line, 1, j - 1))
            /\ k > 1 => ~NearGroup(line[1], seg.merged_lines[k - 1])
      /\ (HeightsAre(<<20, 18>>) /\ CentersAre(<<10, 14>>))
            => Len(seg.merged_lines) = 1
      /\ (HeightsAre(<<18, 20>>) /\ CentersAre(<<14, 10>>))
            => Len(seg.merged_lines) = 1
      /\ (HeightsAre(<<20, 18>>) /\ CentersAre(<<10, 200>>))
            => Len(seg.merged_lines) = 2
      /\ (HeightsAre(<<18, 20>>) /\ CentersAre(<<200, 10>>))
            => Len(seg.merged_lines) = 2

C7_Witness ==
    /\ segpc = "done"
    /\ Len(seg.merged_lines) = 2
    /\ Len(seg.merged_lines[1]) = 2
    /\ HeightsAre(<<20, 18, 18>>) /\ CentersAre(<<10, 200, 14>>)

(* the k-th smallest height of bs *)
KthHeight(bs, k) ==
    CHOOSE v \in { bs[i][6] : i \in 1..Len(bs) } :
        /\ Cardinality({ i \in 1..Len(bs) : bs[i][6] < v }) < k
        /\ Cardinality({ i \in 1..Len(bs) : bs[i][6] <= v }) >= k

(* twice the median height of bs *)
TwiceMedian(bs) ==
    LET n == Len(bs)
    IN  IF n % 2 = 1 THEN 2 * KthHeight(bs, (n + 1) \div 2)
        ELSE KthHeight(bs, n \div 2) + KthHeight(bs, n \div 2 + 1)

(* round(h / median): the nearest integer, a tie going to the even one *)
RoundedRatio(h, m2) ==
    CHOOSE n \in 0..(2 * h) :
        LET d == 2 * h - n * m2
            a == IF d < 0 THEN -d ELSE d
        IN  /\ 2 * a <= m2
            /\ (2 * a = m2 => n % 2 = 0)

MustSplit(b, m2) == b[6] > m2 /\ b[6] > 30

PiecesOf(b, m2) ==
    IF MustSplit(b, m2)
    THEN (IF RoundedRatio(b[6], m2) > 2 THEN RoundedRatio(b[6], m2) ELSE 2)
    ELSE 1

RECURSIVE PiecesBefore(_, _, _)
PiecesBefore(bs, i, m2) ==
    IF i = 1 THEN 0
    ELSE PiecesBefore(bs, i - 1, m2) + PiecesOf(bs[i - 1], m2)

(* C8: split_tall_boxes replaces a box by sub-boxes exactly when its height
   is greater than 2.0 times the median height of the filtered boxes and
   greater than 30; it yields max(2, round(height / median)) sub-boxes
   stacked from the box's top edge, each of height (height integer-divided
   by that number) and with the box's min_x and max_x; every other box
   passes through unchanged.  A box of height 90 among boxes of median
   height 30 becomes 3 sub-boxes of height 30. *)
C8_TallBoxSplit ==
    (segpc = "sort" /\ seg.boxes # <<>>) =>
      LET bs == seg.boxes
          out == seg.raw_boxes
          m2 == TwiceMedian(bs)
      IN  /\ Len(out) = PiecesBefore(bs, Len(bs) + 1, m2)
          /\ \A i \in 1..Len(bs) :
               LET off == PiecesBefore(bs, i, m2)
                   n == PiecesOf(bs[i], m2)
                   sh == bs[i][6] \div n
               IN  IF MustSplit(bs[i], m2)
                   THEN \A t \in 1..n :
                          /\ out[off + t][1] = bs[i][1]
                          /\ out[off + t][3] = bs[i][3]
                          /\ out[off + t][2] = bs[i][2] + (t - 1) * sh
                          /\ out[off + t][4] = bs[i][2] + t * sh
                          /\ out[off + t][6] = sh
                   ELSE out[off + 1] = bs[i]
          /\ \A i \in 1..Len(bs) :
               (bs[i][6] = 90 /\ m2 = 60) =>
                  /\ PiecesOf(bs[i], m2) = 3
                  /\ \A t \in 1..3 :
                       LET sb == out[PiecesBefore(bs, i, m2) + t]
                       IN  sb[6] = 30 /\ sb[4] - sb[2] = 30
                           /\ sb[1] = bs[i][1] /\ sb[3] = bs[i][3]

C8_Witness ==
    /\ segpc = "sort"
    /\ HeightsAre(<<30, 90, 30>>)
    /\ Len(seg.raw_boxes) = 5

---------------------------------------------------------------------------
(* Properties of extract_text and of the handlers, checked under Spec      *)
(* (one worker) and SpecConc (two workers).                                *)

LaterStages ==
    {"adaptive_preprocess", "debug_reset", "detect_and_merge_lines", "recognize"}

BlurMessage == "Image quality too low for accurate OCR"

(* C1: in extract_text, an image whose blur score is below 85 ends the
   request in an error that carries the score and the minimum 85; none of
   adaptive preprocessing, debug-directory reset, detection, segmentation
   and recognition runs and no text is returned.  An image whose score is
   85 or more is not rejected for blur and goes on to preprocessing. *)
C1_BlurRejectionIsTerminal ==
    \A r \in Reqs :
      LET rq == req[r] IN
      ("is_blurry" \in rq.ran) =>
         IF Img[rq.original].blur < 85 * 100
         THEN /\ rq.ocr_state = "raised"
              /\ rq.exc.kind = BlurMessage
              /\ rq.exc.minimum = 85
              /\ rq.exc.score * 10 - Img[rq.original].blur \in -5..5
              /\ rq.ran \cap LaterStages = {}
              /\ rq.lines = <<>> /\ rq.line_boxes = <<>> /\ rq.rec_log = <<>>
              /\ rq.extracted_text = <<>>
              /\ rq.pc = "done" =>
                    /\ rq.resp.code = 500
                    /\ rq.resp.text = <<>>
                    /\ rq.resp.keys \cap {"text", "extracted_text"} = {}
         ELSE /\ rq.exc.kind # BlurMessage
              /\ "adaptive_preprocess" \in rq.ran

C1_Witness ==
    /\ \E r \in Reqs :
         /\ req[r].pc = "done"
         /\ "is_blurry" \in req[r].ran
         /\ Img[req[r].original].blur = 8499
         /\ req[r].exc.score = 850
         /\ req[r].resp.code = 500
    /\ \E img \in ImgIds : Img[img].blur = 85 * 100

(* the texts a recognition log contributes, in line order *)
RECURSIVE KeptTexts(_)
KeptTexts(log) ==
    IF log = <<>> THEN <<>>
    ELSE (IF ~log[1].raised /\ clean_text_output(log[1].text) # <<>>
          THEN << clean_text_output(log[1].text) >> ELSE <<>>)
         \o KeptTexts(Tail(log))

RECURSIVE Joined(_)
Joined(ts) ==
    IF ts = <<>> THEN <<>>
    ELSE IF Tail(ts) = <<>> THEN ts[1]
    ELSE ts[1] \o <<"\n">> \o Joined(Tail(ts))

(* C2: once a request is past the blur gate, recognition failing on any
   subset of its lines never makes extract_text raise; every line is still
   attempted after a failed one, and the returned text is exactly the
   cleaned non-empty texts of the lines whose recognition succeeded, in
   line order. *)
C2_LineFailuresAreSwallowed ==
    \A r \in Reqs :
      LET rq == req[r] IN
      /\ ("recognize" \in rq.ran) => rq.ocr_state # "raised"
      /\ Len(rq.rec_log) = rq.i
      /\ rq.full_text = KeptTexts(rq.rec_log)
      /\ (rq.ocr_state = "returned") =>
            /\ Len(rq.rec_log) = Len(rq.line_boxes)
            /\ rq.extracted_text = Joined(KeptTexts(rq.rec_log))
      /\ (rq.pc = "line") => rq.i < Len(rq.line_boxes)
      /\ (rq.pc = "done" /\ rq.resp.code = 200 /\ rq.ep # "verify") =>
            rq.resp.text = Joined(KeptTexts(rq.rec_log))

C2_Witness ==
    \E r \in Reqs :
      LET rq == req[r] IN
      /\ rq.pc = "done" /\ rq.resp.code = 200
      /\ Len(rq.rec_log) = 4
      /\ rq.rec_log[1].raised /\ ~rq.rec_log[2].raised
      /\ rq.rec_log[3].raised /\ ~rq.rec_log[4].raised
      /\ rq.mode \in models
      /\ rq.resp.text = <<"J", "o", "\n", "J", "o">>

(* C3 (as claimed): a recognition model that fails to load makes engine
   start-up fail, so no request is ever processed by an engine whose
   recognizer for the requested mode is missing. *)
C3_MissingModelIsFatal ==
    \A r \in Reqs :
       ("extract_text" \in req[r].ran) => req[r].mode \in models

UnsupportedNames == { <<>>, <<"noext">>, <<"x", ".", "EXE">> }

InvalidRequest(rq) ==
    \/ /\ rq.ep \in {"extract", "upload"}
       /\ \/ ~rq.upload.has_file
          \/ rq.upload.filename \in UnsupportedNames
          \/ rq.mode_in \notin {"absent", "handwritten", "printed"}
    \/ /\ rq.ep = "base64"
       /\ \/ ~rq.b64.has_data \/ ~rq.b64.has_image
          \/ rq.mode_in \notin {"absent", "handwritten", "printed"}
    \/ /\ rq.ep = "verify"
       /\ \/ rq.payload.shape # "object"
          \/ ~({"ocr_text", "form_data"} \subseteq rq.payload.keys)
          \/ ~rq.payload.ocr_is_str
          \/ ~rq.payload.form_is_dict

(* C4 (as claimed): a request with a missing file, an unsupported
   extension, a mode other than "handwritten" or "printed", or a malformed
   or ill-typed verification payload is answered with a validation error
   (400, not the 500 of a pipeline error), and neither extract_text nor
   verify_form_data is invoked for it. *)
C4_InvalidRequestsGetValidationError ==
    \A r \in Reqs :
      LET rq == req[r] IN
      InvalidRequest(rq) =>
         /\ rq.ran \cap {"extract_text", "verify_form_data"} = {}
         /\ rq.pc = "done" => rq.resp.code = 400

SubmittedImage(rq) ==
    IF rq.ep = "base64" THEN rq.b64.img ELSE rq.upload.content.img

(* C5 (as claimed): with requests in flight at the same time, each
   request's pipeline reads the image this request submitted, and no
   request loses its stored input to another one. *)
C5_RequestsAreIsolated ==
    \A r \in Reqs :
      LET rq == req[r] IN
      ("extract_text" \in rq.ran) =>
         /\ rq.exc.kind # "Error: Image not found"
         /\ rq.pc # "imread" => rq.original = SubmittedImage(rq)

(* C6 (as claimed): when a request that writes debug crops finishes, the
   debug directory holds exactly that request's line crops, one per
   segmented line, and nothing written by another request. *)
C6_DebugDirHoldsOwnCrops ==
    [][ \A r \in Reqs :
          (req[r].ocr_state # "returned" /\ req'[r].ocr_state = "returned") =>
             /\ debug_crops'.exists
             /\ DOMAIN debug_crops'.files = 0..(Len(req'[r].line_boxes) - 1)
             /\ \A k \in DOMAIN debug_crops'.files :
                   debug_crops'.files[k].owner = r ]_vars

BoxCenter(b) == (b[2] + b[4]) \div 2

StrictlyIncreasing(s) == \A j \in 1..(Len(s) - 1) : s[j] < s[j + 1]

(* C10: crop rectangles are emitted top to bottom: every member box of an
   earlier rectangle has a vertical center not above that of any member of
   a later one; and the lines of the returned text follow the order of the
   crop rectangles they were recognized from. *)
C10_TopToBottomOrder ==
    \A r \in Reqs :
      LET rq == req[r] IN
      /\ Len(rq.line_boxes) = Len(rq.lines)
      /\ \A k \in 1..Len(rq.lines) :
            \A b \in { rq.lines[k][j] : j \in 1..Len(rq.lines[k]) } :
               /\ rq.line_boxes[k][2] <= b[2] /\ b[4] <= rq.line_boxes[k][4]
               /\ \A k2 \in (k + 1)..Len(rq.lines) :
                     \A b2 \in { rq.lines[k2][j] : j \in 1..Len(rq.lines[k2]) } :
                        BoxCenter(b) <= BoxCenter(b2)
      /\ Len(rq.line_src) = Len(rq.full_text)
      /\ StrictlyIncreasing(rq.line_src)
      /\ \A j \in 1..Len(rq.line_src) :
            /\ rq.line_src[j] + 1 \in 1..Len(rq.rec_log)
            /\ rq.full_text[j] = rq.rec_log[rq.line_src[j] + 1].text
      /\ (rq.ocr_state = "returned") => rq.extracted_text = Joined(rq.full_text)

C10_Witness ==
    \E r \in Reqs :
      LET rq == req[r] IN
      /\ rq.ocr_state = "returned"
      /\ Len(rq.lines) = 2 /\ Len(rq.lines[1]) = 2
      /\ Img[rq.original].results[1] = Quad(0, 191, 40, 209, 0, 80)
      /\ rq.line_src = <<0, 1>>

---------------------------------------------------------------------------
(* C11: clean_text_output returns the empty text for every text made only  *)
(* of non-word characters (the empty text included) and for every          *)
(* single-character text other than the letter "a" in either case -- the   *)
(* exception is compared after lower-casing, so "I" is dropped while "a"   *)
(* and "A" are kept -- and returns every other text unchanged.             *)

OnlyNonWord(text) == \A i \in 1..Len(text) : text[i] \in TextChars \ WordChars

C11_CleanTextOutput ==
    cleaner.returned =>
        cleaner.result =
            IF OnlyNonWord(cleaner.text) THEN <<>>
            ELSE IF Len(cleaner.text) = 1 /\ cleaner.text \notin {<<"a">>, <<"A">>}
                 THEN <<>>
            ELSE cleaner.text

C11_Witness ==
    /\ cleaner.returned
    /\ cleaner.text = <<"A">>
    /\ cleaner.result = <<"A">>

(* C11 as stated: the exception is case-sensitive, only the lowercase "a"  *)
(* survives among the single-character texts, "A" and "I" are dropped.     *)
C11_CaseSensitiveException ==
    cleaner.returned =>
        cleaner.result =
            IF OnlyNonWord(cleaner.text) THEN <<>>
            ELSE IF Len(cleaner.text) = 1 /\ cleaner.text # <<"a">> THEN <<>>
            ELSE cleaner.text

---------------------------------------------------------------------------
(* C12: for every non-empty form_data, total_score is the floor of the sum *)
(* of the per-field scores divided by the number of fields; for an empty   *)
(* form_data it is 0 and the status is review_required; field_matches      *)
(* holds one score for each field name of form_data and for no other name. *)

RECURSIVE ScoreSum(_, _)
ScoreSum(scores, names) ==
    IF names = {} THEN 0
    ELSE LET k == CHOOSE k \in names : TRUE
         IN  scores[k] + ScoreSum(scores, names \ {k})

C12_FloorAverage ==
    verifier.returned =>
        LET form_data == verifier.form_data
            res == verifier.result
            n == Cardinality(DOMAIN form_data)
            total == ScoreSum(res.field_matches, DOMAIN form_data)
        IN  /\ DOMAIN res.field_matches = DOMAIN form_data
            /\ \A k \in DOMAIN form_data : res.field_matches[k] \in 0..100
            /\ n = 0 => res.total_score = 0 /\ res.status = "review_required"
            /\ n > 0 => /\ res.total_score * n <= total
                        /\ total < (res.total_score + 1) * n

(* two fields whose mean is not an integer *)
C12_Witness ==
    /\ verifier.returned
    /\ Cardinality(DOMAIN verifier.form_data) = 2
    /\ 2 * verifier.result.total_score
         < ScoreSum(verifier.result.field_matches, DOMAIN verifier.form_data)

---------------------------------------------------------------------------
(* C13: the status is "verified" exactly when total_score is strictly      *)
(* greater than 90 and "review_required" otherwise; a total of exactly 90  *)
(* (scores 100 and 80) gives "review_required".                            *)

C13_StrictThreshold ==
    verifier.returned =>
        /\ verifier.result.status \in {"verified", "review_required"}
        /\ verifier.result.status = "verified" <=> verifier.result.total_score > 90

C13_Witness ==
    /\ verifier.returned
    /\ DOMAIN verifier.form_data = {"a", "b"}
    /\ verifier.result.field_matches["a"] = 100
    /\ verifier.result.field_matches["b"] = 80
    /\ verifier.result.total_score = 90
    /\ verifier.result.status = "review_required"

---------------------------------------------------------------------------
(* C14: every box that results from filtering and every box that results   *)
(* from splitting satisfies max_y > min_y and height = max_y - min_y, for  *)
(* any output of the detector; its min_x and max_x are those of a kept     *)
(* detection box that contains it, so max_x > min_x holds for it exactly   *)
(* when that detection box has a positive width.                           *)

AfterFilter == segpc \in {"split", "sort", "group", "finalize", "done"}

C14_BoxShape ==
    AfterFilter =>
        \A k \in 1..Len(seg.raw_boxes) :
            LET b == seg.raw_boxes[k]
            IN  /\ b[MAX_Y] > b[MIN_Y]
                /\ b[HEIGHT] = b[MAX_Y] - b[MIN_Y]
                /\ \E i \in KeptResults :
                       /\ b[MIN_X] = ResMinX(results[i])
                       /\ b[MAX_X] = ResMaxX(results[i])
                       /\ ResMinY(results[i]) <= b[MIN_Y]
                       /\ b[MAX_Y] <= ResMaxY(results[i])

(* a tall box has been split next to a detection of zero width *)
C14_Witness ==
    /\ segpc = "sort"
    /\ Len(seg.raw_boxes) > Len(seg.boxes)
    /\ \E k \in 1..Len(seg.raw_boxes) :
           seg.raw_boxes[k][MAX_X] = seg.raw_boxes[k][MIN_X]
    /\ \E k \in 1..Len(seg.raw_boxes) :
           seg.raw_boxes[k][MAX_X] > seg.raw_boxes[k][MIN_X]

(* C14 as stated: every such box also has max_x > min_x, whatever the      *)
(* detector returned.                                                      *)
C14_PositiveWidthAndHeight ==
    AfterFilter =>
        \A k \in 1..Len(seg.raw_boxes) :
            LET b == seg.raw_boxes[k]
            IN  /\ b[MAX_Y] > b[MIN_Y]
                /\ b[MAX_X] > b[MIN_X]
                /\ b[HEIGHT] = b[MAX_Y] - b[MIN_Y]

---------------------------------------------------------------------------
(* C15: grouping partitions the boxes.  Every box that results from        *)
(* filtering and splitting is a member of exactly one group, no group is   *)
(* empty, there is exactly one crop rectangle per group (none at all when  *)
(* the detection list is empty or fully filtered out), and each rectangle  *)
(* is the smallest one that contains all members of its group.             *)

CountIn(boxes, b) == Cardinality({ i \in 1..Len(boxes) : boxes[i] = b })

RECURSIVE CountInLines(_, _)
CountInLines(ls, b) ==
    IF ls = <<>> THEN 0 ELSE CountIn(ls[1], b) + CountInLines(Tail(ls), b)

BoxesToGroup == split_tall_boxes(seg.boxes)

C15_GroupsPartitionBoxes ==
    segpc = "done" =>
        /\ \A g \in 1..Len(seg.merged_lines) : seg.merged_lines[g] # <<>>
        /\ \A k \in 1..Len(BoxesToGroup) :
               CountInLines(seg.merged_lines, BoxesToGroup[k])
                   = CountIn(BoxesToGroup, BoxesToGroup[k])
        /\ \A g \in 1..Len(seg.merged_lines) :
               \A k \in 1..Len(seg.merged_lines[g]) :
                   CountIn(BoxesToGroup, seg.merged_lines[g][k]) > 0
        /\ Len(seg.final_crops) = Len(seg.merged_lines)
        /\ BoxesToGroup = <<>> => seg.final_crops = <<>>
        /\ \A g \in 1..Len(seg.final_crops) :
               LET crop == seg.final_crops[g]
                   line == seg.merged_lines[g]
                   members == 1..Len(line)
               IN  /\ \A k \in members : /\ crop[1] <= line[k][MIN_X]
                                          /\ crop[2] <= line[k][MIN_Y]
                                          /\ crop[3] >= line[k][MAX_X]
                                          /\ crop[4] >= line[k][MAX_Y]
                   /\ \E k \in members : crop[1] = line[k][MIN_X]
                   /\ \E k \in members : crop[2] = line[k][MIN_Y]
                   /\ \E k \in members : crop[3] = line[k][MAX_X]
                   /\ \E k \in members : crop[4] = line[k][MAX_Y]

(* two groups, one of them with two members whose extents differ *)
C15_Witness ==
    /\ segpc = "done"
    /\ Len(seg.final_crops) = 2
    /\ \E g \in 1..2 :
           /\ Len(seg.merged_lines[g]) = 2
           /\ seg.merged_lines[g][1][MIN_Y] # seg.merged_lines[g][2][MIN_Y]
           /\ seg.merged_lines[g][1][MAX_X] # seg.merged_lines[g][2][MAX_X]

---------------------------------------------------------------------------
(* C16: every box that takes part in line grouping, whether it passed the  *)
(* height filter unchanged or is a sub-box made by split_tall_boxes, has a *)
(* height of at least 8.                                                   *)

C16_GroupedBoxesAtLeast8High ==
    segpc \in {"sort", "group", "finalize", "done"} =>
        \A k \in 1..Len(seg.raw_boxes) : seg.raw_boxes[k][HEIGHT] >= 8

---------------------------------------------------------------------------
(* C17: once a request to /api/ocr/upload, /extract or                     *)
(* /api/ocr/process-base64 has been answered, with success or with any     *)
(* error, every temporary file that request created has been removed.      *)

C17_TempFilesRemoved ==
    \A r \in Reqs :
        (req[r].pc = "done" /\ req[r].ep \in {"upload", "extract", "base64"}) =>
            \A path \in {req[r].temp_path, req[r].temp_png_path} \ {NoPath} :
                ~Exists(path)

=============================================================================
